---- MODULE Spec2Model ----
(***************************************************************************)
(* A model of the PDF search engine of pdf_search_core.py (search_pdfs and *)
(* its helpers) and of the desktop front end that runs it on a worker      *)
(* thread (pdf_search_gui.py).                                             *)
(*                                                                         *)
(* Texts are tuples of one-character strings.  Positions inside a text are *)
(* 0-based, as in Python; a span [start, end) covers text[start+1..end] in *)
(* TLA+ indexing.  A path is the tuple of its components below the search  *)
(* folder; a component is a number whose order is the order of the names.  *)
(***************************************************************************)
EXTENDS Integers, Sequences, FiniteSets, TLC

(***************************************************************************)
(* Bounds of the model.                                                    *)
(***************************************************************************)
MaxDocs == 2
MaxTotalPages == 3
\* the pages the documents of a folder hold together, in the window's model
MaxGuiPages == 1
\* the pages of the document in the folders with pages around the OCR threshold
MaxThresholdPages == 2
\* the pages of the document in the folders of one long document
MaxLongPages == 5
\* pages of the document searched with OCR output of every kind
MaxOcrPages == 2
\* the length of the texts and of the queries a function is called on
MaxTextLen == 3
MaxQueryLen == 2
\* the largest snippet radius make_snippet is called with
MaxRadius == 2

(***************************************************************************)
(* Program constants.                                                      *)
(***************************************************************************)
MinChars == 25
SnippetRadius == 70
ProgressEvery == 5

Min(a, b) == IF a < b THEN a ELSE b
Max(a, b) == IF a > b THEN a ELSE b

(***************************************************************************)
(* Characters.  \s of the regular expression facility, like str.strip,     *)
(* takes the blank and the newline for whitespace.                         *)
(***************************************************************************)
IsSpace(c) == c \in {" ", "\n"}

Lower(c) == IF c = "A" THEN "a" ELSE c

RECURSIVE LStrip(_)
LStrip(s) ==
    IF s = <<>> THEN <<>>
    ELSE IF IsSpace(Head(s)) THEN LStrip(Tail(s)) ELSE s

RECURSIVE RStrip(_)
RStrip(s) ==
    IF s = <<>> THEN <<>>
    ELSE IF IsSpace(s[Len(s)]) THEN RStrip(SubSeq(s, 1, Len(s) - 1)) ELSE s

\* re.sub(r"\s+", " ", s): every maximal run of whitespace becomes one blank.
RECURSIVE CollapseSpaces(_)
CollapseSpaces(s) ==
    IF s = <<>> THEN <<>>
    ELSE IF IsSpace(Head(s))
         THEN <<" ">> \o CollapseSpaces(LStrip(s))
         ELSE <<Head(s)>> \o CollapseSpaces(Tail(s))

normalize_whitespace(s) == RStrip(LStrip(CollapseSpaces(s)))

\* text[lo:hi] of Python for 0 <= lo, 0 <= hi
Slice(text, lo, hi) == SubSeq(text, lo + 1, Min(hi, Len(text)))

\* a snippet whose window is not cut before the match
make_snippet_fromStart(text, start, end, radius) ==
    normalize_whitespace(Slice(text, 0, Min(Len(text), end + radius)))

make_snippet(text, start, end, radius) ==
    LET lo == Max(0, start - radius)
        hi == Min(Len(text), end + radius)
    IN  normalize_whitespace(Slice(text, lo, hi))

(***************************************************************************)
(* The pattern facility, restricted to the dialect the model's queries are *)
(* written in: a literal character, "." (any character, DOTALL), and a     *)
(* greedy "*" after either.  A compiled pattern is a sequence of items.    *)
(***************************************************************************)
IsMeta(c) == c \in {".", "*"}

\* the query compiled as it stands, its special characters not escaped
LiteralItems_unescaped(q) ==
    IF q = <<>> THEN <<>>
    ELSE [i \in 1..Len(q) |-> [any |-> q[i] = ".", ch |-> q[i], star |-> FALSE]]

\* re.escape followed by compilation: every character stands for itself.
LiteralItems(q) == [i \in 1..Len(q) |-> [any |-> FALSE, ch |-> q[i], star |-> FALSE]]

\* "*" with nothing before it, or right after another "*", does not compile.
RegexValid(q) ==
    \A i \in 1..Len(q) : q[i] = "*" => (i > 1 /\ q[i - 1] # "*")

RECURSIVE RegexItems(_)
RegexItems(q) ==
    IF q = <<>> THEN <<>>
    ELSE LET starred == Len(q) >= 2 /\ q[2] = "*"
             item == [any |-> Head(q) = ".", ch |-> Head(q), star |-> starred]
         IN  <<item>> \o RegexItems(SubSeq(q, IF starred THEN 3 ELSE 2, Len(q)))

\* a compilation that falls back to the literal query when the expression is
\* malformed, instead of failing
compile_pattern_lenient(query, use_regex, ignore_case) ==
    IF use_regex /\ RegexValid(query)
    THEN [ok |-> TRUE, items |-> RegexItems(query), icase |-> ignore_case]
    ELSE [ok |-> TRUE, items |-> LiteralItems(query), icase |-> ignore_case]

compile_pattern(query, use_regex, ignore_case) ==
    IF use_regex
    THEN IF RegexValid(query)
         THEN [ok |-> TRUE, items |-> RegexItems(query), icase |-> ignore_case]
         ELSE [ok |-> FALSE, items |-> <<>>, icase |-> ignore_case]
    ELSE [ok |-> TRUE, items |-> LiteralItems(query), icase |-> ignore_case]

ItemMatches(item, c, icase) ==
    \/ item.any
    \/ IF icase THEN Lower(item.ch) = Lower(c) ELSE item.ch = c

\* the number of consecutive characters from position p that item accepts
RECURSIVE RunLen(_, _, _, _)
RunLen(item, text, p, icase) ==
    IF p < Len(text) /\ ItemMatches(item, text[p + 1], icase)
    THEN 1 + RunLen(item, text, p + 1, icase)
    ELSE 0

\* The backtracking matcher: the end of the first match of items[i..] at
\* position p in priority order (greedy first), or -1.  A match ending at
\* `forbid` is rejected (the must-advance rule after an empty match).
RECURSIVE MatchAt(_, _, _, _, _, _)
RECURSIVE TryStar(_, _, _, _, _, _, _)
TryStar(items, i, text, p, k, icase, forbid) ==
    LET r == MatchAt(items, i + 1, text, p + k, icase, forbid)
    IN  IF r # -1 THEN r
        ELSE IF k = 0 THEN -1
        ELSE TryStar(items, i, text, p, k - 1, icase, forbid)

MatchAt(items, i, text, p, icase, forbid) ==
    IF i > Len(items) THEN (IF p = forbid THEN -1 ELSE p)
    ELSE IF items[i].star
         THEN TryStar(items, i, text, p, RunLen(items[i], text, p, icase), icase, forbid)
         ELSE IF p < Len(text) /\ ItemMatches(items[i], text[p + 1], icase)
              THEN MatchAt(items, i + 1, text, p + 1, icase, forbid)
              ELSE -1

\* pattern.finditer(text): scan from `pos`; mustAdvance is set after an empty
\* match and applies to the first position tried only.
RECURSIVE ScanFrom(_, _, _, _)
ScanFrom(pat, text, pos, mustAdvance) ==
    IF pos > Len(text) THEN <<>>
    ELSE LET e == MatchAt(pat.items, 1, text, pos, pat.icase,
                          IF mustAdvance THEN pos ELSE -1)
         IN  IF e = -1 THEN ScanFrom(pat, text, pos + 1, FALSE)
             ELSE <<[start |-> pos, end |-> e]>> \o ScanFrom(pat, text, e, e = pos)

finditer(pat, text) == ScanFrom(pat, text, 0, FALSE)

(***************************************************************************)
(* The folder.  A page is what the PDF library and the OCR engine answer   *)
(* for it: its extracted text (or a failure to load it) and the OCR output *)
(* of its image (or an OCR failure).  A document that cannot be opened has *)
(* openable = FALSE.                                                       *)
(***************************************************************************)
PageHit  == [readable |-> TRUE, text |-> <<"a", " ", " ", "a">>,
             ocr_ok |-> FALSE, ocr |-> <<>>]
PageMiss == [readable |-> TRUE, text |-> <<"b">>,
             ocr_ok |-> TRUE, ocr |-> <<"A", "b", "a">>]
PageBad  == [readable |-> FALSE, text |-> <<>>,
             ocr_ok |-> FALSE, ocr |-> <<>>]

PageKinds == {PageHit, PageMiss, PageBad}

PageSeqs(maxLen) == UNION {[1..m -> PageKinds] : m \in 0..maxLen}

DocsUpTo(t) ==
    {[openable |-> FALSE, pages |-> <<>>]}
        \cup {[openable |-> TRUE, pages |-> ps] : ps \in PageSeqs(t)}

\* the sequences of exactly n documents that hold at most t pages together
RECURSIVE DocSeqs(_, _)
DocSeqs(n, t) ==
    IF n = 0 THEN {<<>>}
    ELSE UNION {{<<d>> \o w : w \in DocSeqs(n - 1, t - Len(d.pages))} : d \in DocsUpTo(t)}

\* The i-th PDF of a folder: odd ones lie in the sub-folder named 2, even ones
\* directly in the folder.
PathFor(i) == IF i % 2 = 1 THEN <<2, i>> ELSE <<i - 1>>

\* a file that is not a PDF, present in every folder
NotesFile == [path |-> <<0>>, is_pdf |-> FALSE,
              doc |-> [openable |-> FALSE, pages |-> <<>>]]

FolderOf(docs) ==
    {NotesFile} \cup
    {[path |-> PathFor(i), is_pdf |-> TRUE, doc |-> docs[i]] : i \in 1..Len(docs)}

Worlds == {FolderOf(docs) : docs \in UNION {DocSeqs(n, MaxTotalPages) : n \in 0..MaxDocs}}

FileAt(fs, path) == CHOOSE f \in fs : f.path = path
DocAt(fs, path) == FileAt(fs, path).doc

(***************************************************************************)
(* Requests.                                                               *)
(***************************************************************************)
Queries == {<<>>, <<" ">>, <<" ", "a">>, <<"*">>}

\* str.strip()
Strip(s) == RStrip(LStrip(s))

\* The requests of the model.  The options that are read only after the
\* validation (recursive, include_ocr) vary for the requests that pass it;
\* "*" is submitted as a regular expression, " a" as a literal.
Requests ==
    {r \in [folder_ok : BOOLEAN, query : Queries, recursive : BOOLEAN,
            use_regex : BOOLEAN, ignore_case : {TRUE}, include_ocr : BOOLEAN] :
        /\ r.query = <<"*">> => r.use_regex
        /\ r.query = <<" ", "a">> => ~r.use_regex
        /\ (~r.folder_ok \/ Strip(r.query) = <<>> \/ r.use_regex)
              => (r.recursive /\ ~r.include_ocr)}

(***************************************************************************)
(* Path order: Path.__lt__ compares the component tuples.                  *)
(***************************************************************************)
RECURSIVE PathLess(_, _)
PathLess(p, q) ==
    IF q = <<>> THEN FALSE
    ELSE IF p = <<>> THEN TRUE
    ELSE IF Head(p) # Head(q) THEN Head(p) < Head(q)
    ELSE PathLess(Tail(p), Tail(q))

PathLeq(p, q) == p = q \/ PathLess(p, q)

\* sorted(paths) for a sequence of distinct paths
RECURSIVE Sorted(_)
Sorted(ps) ==
    IF ps = <<>> THEN <<>>
    ELSE LET i == CHOOSE i \in 1..Len(ps) : \A j \in 1..Len(ps) : PathLeq(ps[i], ps[j])
         IN  <<ps[i]>> \o Sorted(SubSeq(ps, 1, i - 1) \o SubSeq(ps, i + 1, Len(ps)))

\* the enumeration with rglob whatever the recursive flag says
GlobSet_alwaysRecursive(fs, recursive) == {f.path : f \in {g \in fs : g.is_pdf}}

\* the paths folder.glob("*.pdf") / folder.rglob("*.pdf") yield, as a set
GlobSet(fs, recursive) ==
    {f.path : f \in {g \in fs : g.is_pdf /\ (recursive \/ Len(g.path) = 1)}}

\* every order in which the file system may yield a set of paths
Orders(S) ==
    {o \in [1..Cardinality(S) -> S] : \A i, j \in 1..Cardinality(S) : i # j => o[i] # o[j]}

\* iter_pdfs without the sort: the order of the file system is kept
iter_pdfs_unsorted(globbed) == globbed

iter_pdfs(globbed) == Sorted(globbed)


(***************************************************************************)
(* Page processing.                                                        *)
(***************************************************************************)
\* a threshold that takes in the page with exactly min_chars characters
_page_needs_ocr_inclusive(text) == Len(normalize_whitespace(text)) <= MinChars

_page_needs_ocr(text) == Len(normalize_whitespace(text)) < MinChars

\* an _ocr_page that goes to the engine without looking for the libraries
_ocr_page_unchecked(page, ocr_cap) ==
    IF ~page.ocr_ok THEN [ok |-> FALSE, text |-> <<>>]
    ELSE [ok |-> TRUE, text |-> page.ocr]

\* _ocr_page: the OCR text, or a failure when the OCR capability is absent or
\* the engine fails on the page
_ocr_page(page, ocr_cap) ==
    IF ~ocr_cap THEN [ok |-> FALSE, text |-> <<>>]
    ELSE IF ~page.ocr_ok THEN [ok |-> FALSE, text |-> <<>>]
    ELSE [ok |-> TRUE, text |-> page.ocr]

\* the text a readable page is scanned in, and whether it came from OCR
\* an OCR result that is dropped when it is empty, the extracted text kept
ResolveText_keepsTextOnEmptyOcr(page, include_ocr, ocr_cap) ==
    IF include_ocr /\ _page_needs_ocr(page.text)
    THEN LET o == _ocr_page(page, ocr_cap)
         IN  IF o.ok /\ o.text # <<>>
             THEN [text |-> o.text, used_ocr |-> TRUE, ocr_tried |-> TRUE]
             ELSE [text |-> page.text, used_ocr |-> FALSE, ocr_tried |-> TRUE]
    ELSE [text |-> page.text, used_ocr |-> FALSE, ocr_tried |-> FALSE]

ResolveText(page, include_ocr, ocr_cap) ==
    IF include_ocr /\ _page_needs_ocr(page.text)
    THEN LET o == _ocr_page(page, ocr_cap)
         IN  IF o.ok THEN [text |-> o.text, used_ocr |-> TRUE, ocr_tried |-> TRUE]
             ELSE [text |-> page.text, used_ocr |-> FALSE, ocr_tried |-> TRUE]
    ELSE [text |-> page.text, used_ocr |-> FALSE, ocr_tried |-> FALSE]

\* the spans scanned on a page: none when the text is empty
PageSpans(pat, text) == IF text # <<>> THEN finditer(pat, text) ELSE <<>>

\* a Match that carries the index of its page as it is
NewMatch_zeroBased(path, page_index, text, span, used_ocr, radius) ==
    [pdf_path |-> path,
     page_number_1based |-> page_index,
     snippet |-> make_snippet(text, span.start, span.end, radius),
     used_ocr |-> used_ocr]

NewMatch(path, page_index, text, span, used_ocr, radius) ==
    [pdf_path |-> path,
     page_number_1based |-> page_index + 1,
     snippet |-> make_snippet(text, span.start, span.end, radius),
     used_ocr |-> used_ocr]

PageMatches(pat, path, page_index, rt, radius) ==
    LET spans == PageSpans(pat, rt.text)
    IN  [i \in 1..Len(spans) |->
            NewMatch(path, page_index, rt.text, spans[i], rt.used_ocr, radius)]

(***************************************************************************)
(* Validation of a request (search_pdfs up to the compilation).            *)
(***************************************************************************)
NoError == "none"

\* the validation with the emptiness test made on the untrimmed query
RequestError_noTrim(fitz_cap, req) ==
    IF ~fitz_cap THEN "RuntimeError"
    ELSE IF ~req.folder_ok THEN "ValueError"
    ELSE IF req.query = <<>> THEN "ValueError"
    ELSE IF ~compile_pattern(Strip(req.query), req.use_regex, req.ignore_case).ok
         THEN "re.error"
    ELSE NoError

\* the validation with the PDF library looked for after the request is checked
RequestError_libraryLast(fitz_cap, req) ==
    IF ~req.folder_ok THEN "ValueError"
    ELSE IF Strip(req.query) = <<>> THEN "ValueError"
    ELSE IF ~fitz_cap THEN "RuntimeError"
    ELSE IF ~compile_pattern(Strip(req.query), req.use_regex, req.ignore_case).ok
         THEN "re.error"
    ELSE NoError

RequestError(fitz_cap, req) ==
    IF ~fitz_cap THEN "RuntimeError"
    ELSE IF ~req.folder_ok THEN "ValueError"
    ELSE IF Strip(req.query) = <<>> THEN "ValueError"
    ELSE IF ~compile_pattern(Strip(req.query), req.use_regex, req.ignore_case).ok
         THEN "re.error"
    ELSE NoError

(***************************************************************************)
(* State.                                                                  *)
(*   files, caps, stop   the environment: the folder, the capabilities     *)
(*                       found at import, the caller's cancellation flag   *)
(*   pc .. doc_open      search_pdfs: its position and its locals          *)
(*   events              the Progress records handed to on_progress        *)
(*   log, match_pos, at_cancel   history: the I/O performed, where each    *)
(*                       match was found, the matches held when a poll     *)
(*                       first returned true                               *)
(*   run, first_result   a caller that calls twice: which call this is,    *)
(*                       the list the first call returned                  *)
(*   worker_alive .. _results   the window of pdf_search_gui.py: the       *)
(*                       worker thread, what it put on the queue after     *)
(*                       the search, how much of the queue the UI thread   *)
(*                       has taken, the buttons' state, the status line,   *)
(*                       the last dialog shown, the matches listed         *)
(*                       (for search_worker of pdf_search_mp.py and the    *)
(*                       window of pdf_search_aio.py: the same, of their   *)
(*                       worker and their queue)                           *)
(*   unit_in, unit_out   a function of the module called on its own: its   *)
(*                       arguments and what it returned (for main of       *)
(*                       run_pdf_search.py: what the machine answers, and  *)
(*                       the locals of main)                               *)
(***************************************************************************)
VARIABLES files, caps, stop,
          pc, args, exc, pattern, pdfs, matches, processed_pages, total_pages,
          scan_i, doc_i, page_i, doc_open, result,
          events, log, match_pos, at_cancel,
          run, first_result,
          worker_alive, worker_tail, ui_taken, busy, status, dialog, _results,
          unit_in, unit_out

envVars == <<files, caps, stop>>
runVars == <<pc, args, exc, pattern, pdfs, matches, processed_pages, total_pages,
             scan_i, doc_i, page_i, doc_open, result>>
histVars == <<events, log, match_pos, at_cancel>>
callerVars == <<run, first_result>>
guiVars == <<worker_alive, worker_tail, ui_taken, busy, status, dialog, _results>>
unitVars == <<unit_in, unit_out>>
outerVars == <<callerVars, guiVars, unitVars>>
vars == <<envVars, runVars, histVars, outerVars>>

NoFile == <<>>
NoPattern == [ok |-> FALSE, items |-> <<>>, icase |-> FALSE]
NoArgs == [folder_ok |-> FALSE, query |-> <<>>, recursive |-> FALSE,
           use_regex |-> FALSE, ignore_case |-> FALSE, include_ocr |-> FALSE]
NoSnapshot == [seen |-> FALSE, matches |-> <<>>]

Entry(op, d, p, v) == [op |-> op, doc |-> d, page |-> p, val |-> v]

\* a progress record that counts the pages still to come
Progress_pagesLeft(file_path) ==
    [processed |-> total_pages - processed_pages, total |-> total_pages,
     current_file |-> file_path, matches_found |-> Len(matches)]

Progress(file_path) ==
    [processed |-> processed_pages, total |-> total_pages,
     current_file |-> file_path, matches_found |-> Len(matches)]

\* should_cancel(): the caller's flag
cancelled == stop

\* the loop over the documents leaves at a poll that returned true
DocLoopBreaks(c) == c

\* the loop over the pages of a document leaves at a poll that returned true
PageLoopBreaks(c) == c

\* no handler around the processing of a document
DocErrorCaught_never == FALSE

\* an exception raised while a document is processed is caught there
DocErrorCaught == TRUE

\* no handler around the call of _ocr_page
OcrErrorCaught_never == FALSE

\* an exception raised by _ocr_page is caught where it is called
OcrErrorCaught == TRUE

\* a document left open when the loop over its pages is left by a break
ClosedOnExit_notOnBreak(how) == how # "break"

\* "with fitz.open(...)": the document is closed however the block is left
\* (how: "prescan", "end", "break", "error")
ClosedOnExit(how) == TRUE

\* what leaving the block of an open document adds to the log
CloseEntry(d, how) == IF ClosedOnExit(how) THEN <<Entry("close", d, 0, TRUE)>> ELSE <<>>

\* a return that drops the matches of a cancelled run
ReturnValue_emptyOnCancel(ms) == IF stop THEN <<>> ELSE ms

\* the value search_pdfs returns
ReturnValue(ms) == ms

\* where the loop over the documents goes when it turns to document i
DocLoopPc(i) == IF i > Len(pdfs) THEN "final" ELSE "doc"

Snapshot(c) ==
    IF c /\ ~at_cancel.seen THEN [seen |-> TRUE, matches |-> matches] ELSE at_cancel

InitEnv(worlds) ==
    /\ files \in worlds
    /\ caps \in [fitz : BOOLEAN, ocr : BOOLEAN]
    /\ stop = FALSE

InitRun ==
    /\ pc = "idle"
    /\ args = NoArgs
    /\ exc = NoError
    /\ pattern = NoPattern
    /\ pdfs = <<>>
    /\ matches = <<>>
    /\ processed_pages = 0
    /\ total_pages = 0
    /\ scan_i = 0
    /\ doc_i = 0
    /\ page_i = 0
    /\ doc_open = FALSE
    /\ result = <<>>
    /\ events = <<>>
    /\ log = <<>>
    /\ match_pos = <<>>
    /\ at_cancel = NoSnapshot

\* the caller before its first call; the window after PDFSearchApp.__init__
InitCallerGui ==
    /\ run = 1
    /\ first_result = <<>>
    /\ worker_alive = FALSE
    /\ worker_tail = <<>>
    /\ ui_taken = 0
    /\ busy = FALSE
    /\ status = "Ready."
    /\ dialog = "none"
    /\ _results = <<>>

NoCall == [kind |-> "none"]
NoReturn == [done |-> FALSE, val |-> <<>>]

InitOuter ==
    /\ InitCallerGui
    /\ unit_in = NoCall
    /\ unit_out = NoReturn

Init == InitEnv(Worlds) /\ InitRun /\ InitOuter

\* The caller invokes search_pdfs with a request.
Call ==
    /\ pc = "idle"
    /\ \E req \in Requests : args' = req
    /\ pc' = "enter"
    /\ UNCHANGED <<envVars, outerVars, exc, pattern, pdfs, matches, processed_pages, total_pages,
                   scan_i, doc_i, page_i, doc_open, result, histVars>>

\* The caller's cancellation flag is raised while the search runs.
RequestCancel ==
    /\ pc \notin {"idle", "returned", "raised"}
    /\ ~stop
    /\ stop' = TRUE
    /\ UNCHANGED <<files, caps, outerVars, runVars, histVars>>

\* search_pdfs, from its entry to the compiled pattern.
Enter ==
    /\ pc = "enter"
    /\ LET err == RequestError(caps.fitz, args)
       IN  IF err # NoError
           THEN /\ pc' = "raised"
                /\ exc' = err
                /\ pattern' = pattern
           ELSE /\ pc' = "enumerate"
                /\ exc' = exc
                /\ pattern' = compile_pattern(Strip(args.query), args.use_regex,
                                              args.ignore_case)
    /\ UNCHANGED <<envVars, outerVars, args, pdfs, matches, processed_pages, total_pages,
                   scan_i, doc_i, page_i, doc_open, result, histVars>>

\* pdfs = iter_pdfs(folder, recursive); the result list and the counters start.
Enumerate ==
    /\ pc = "enumerate"
    /\ \E globbed \in Orders(GlobSet(files, args.recursive)) :
          pdfs' = iter_pdfs(globbed)
    /\ matches' = <<>>
    /\ processed_pages' = 0
    /\ total_pages' = 0
    /\ scan_i' = 1
    /\ pc' = IF pdfs' = <<>> THEN "progress0" ELSE "prescan"
    /\ log' = Append(log, Entry("glob", 0, 0, TRUE))
    /\ UNCHANGED <<envVars, outerVars, args, exc, pattern, doc_i, page_i, doc_open, result,
                   events, match_pos, at_cancel>>

\* a pre-scan that keeps the pages counted before the failure
TotalOnPrescanError_partial(counted) == counted

\* the total after count_total_pages raised: unknown
TotalOnPrescanError(counted) == 0

\* count_total_pages: one document opened, counted and closed; a failure
\* leaves the total unknown (0).
PrescanOpen ==
    /\ pc = "prescan"
    /\ LET doc == DocAt(files, pdfs[scan_i])
       IN  /\ log' = Append(log, Entry("open_count", scan_i, 0, doc.openable))
                       \o (IF doc.openable THEN CloseEntry(scan_i, "prescan") ELSE <<>>)
           /\ IF ~doc.openable
              THEN /\ total_pages' = TotalOnPrescanError(total_pages)
                   /\ pc' = "progress0"
                   /\ scan_i' = scan_i
              ELSE /\ total_pages' = total_pages + Len(doc.pages)
                   /\ pc' = IF scan_i = Len(pdfs) THEN "progress0" ELSE "prescan"
                   /\ scan_i' = scan_i + 1
    /\ UNCHANGED <<envVars, outerVars, args, exc, pattern, pdfs, matches, processed_pages,
                   doc_i, page_i, doc_open, result, events, match_pos, at_cancel>>

\* progress(None) before the loop over the documents
InitialProgress ==
    /\ pc = "progress0"
    /\ events' = Append(events, Progress(NoFile))
    /\ doc_i' = 1
    /\ pc' = DocLoopPc(1)
    /\ UNCHANGED <<envVars, outerVars, args, exc, pattern, pdfs, matches, processed_pages,
                   total_pages, scan_i, page_i, doc_open, result,
                   log, match_pos, at_cancel>>

\* The head of the loop over the documents: the poll, progress(pdf_path) and
\* the opening of the document.
DocStep ==
    /\ pc = "doc"
    /\ LET c == cancelled
           path == pdfs[doc_i]
           doc == DocAt(files, path)
           poll == Entry("poll", doc_i, 0, c)
       IN  /\ at_cancel' = Snapshot(c)
           /\ IF DocLoopBreaks(c)
              THEN /\ pc' = "final"
                   /\ log' = Append(log, poll)
                   /\ UNCHANGED <<events, doc_i, page_i, doc_open, exc>>
              ELSE IF ~doc.openable
              THEN /\ log' = log \o <<poll, Entry("open", doc_i, 0, FALSE)>>
                   /\ IF DocErrorCaught
                      THEN /\ events' = events \o <<Progress(path), Progress(path)>>
                           /\ doc_i' = doc_i + 1
                           /\ pc' = DocLoopPc(doc_i + 1)
                           /\ exc' = exc
                      ELSE /\ events' = Append(events, Progress(path))
                           /\ doc_i' = doc_i
                           /\ pc' = "raised"
                           /\ exc' = "DocumentError"
                   /\ UNCHANGED <<page_i, doc_open>>
              ELSE /\ log' = log \o <<poll, Entry("open", doc_i, 0, TRUE)>>
                              \o (IF Len(doc.pages) = 0 THEN CloseEntry(doc_i, "end")
                                  ELSE <<>>)
                   /\ events' = Append(events, Progress(path))
                   /\ page_i' = 0
                   /\ exc' = exc
                   /\ IF Len(doc.pages) = 0
                      THEN /\ doc_open' = ~ClosedOnExit("end")
                           /\ doc_i' = doc_i + 1
                           /\ pc' = DocLoopPc(doc_i + 1)
                      ELSE /\ doc_open' = TRUE
                           /\ doc_i' = doc_i
                           /\ pc' = "page"
    /\ UNCHANGED <<envVars, outerVars, args, pattern, pdfs, matches, processed_pages,
                   total_pages, scan_i, result, match_pos>>

\* One turn of the loop over the pages of the open document: the poll, the
\* extraction, the OCR fallback, the scan, the counters and the progress.
PageStep ==
    /\ pc = "page"
    /\ LET c == cancelled
           path == pdfs[doc_i]
           doc == DocAt(files, path)
           page == doc.pages[page_i + 1]
           poll == Entry("poll", doc_i, page_i + 1, c)
           rt == ResolveText(page, args.include_ocr, caps.ocr)
           found == PageMatches(pattern, path, page_i, rt, SnippetRadius)
           spans == PageSpans(pattern, rt.text)
           last == page_i + 1 = Len(doc.pages)
           ocr_escapes == page.readable /\ rt.ocr_tried /\ ~rt.used_ocr /\ ~OcrErrorCaught
       IN  /\ at_cancel' = Snapshot(c)
           /\ IF PageLoopBreaks(c)
              THEN /\ log' = Append(log, poll) \o CloseEntry(doc_i, "break")
                   /\ doc_open' = ~ClosedOnExit("break")
                   /\ doc_i' = doc_i + 1
                   /\ pc' = DocLoopPc(doc_i + 1)
                   /\ UNCHANGED <<matches, match_pos, processed_pages, events,
                                  page_i, exc>>
              ELSE IF ~page.readable \/ ocr_escapes
              THEN /\ log' = log \o <<poll, Entry("extract", doc_i, page_i + 1, page.readable)>>
                              \o (IF ocr_escapes
                                  THEN <<Entry("ocr", doc_i, page_i + 1, FALSE)>>
                                  ELSE <<>>)
                              \o CloseEntry(doc_i, "error")
                   /\ doc_open' = ~ClosedOnExit("error")
                   /\ IF DocErrorCaught
                      THEN /\ events' = Append(events, Progress(path))
                           /\ doc_i' = doc_i + 1
                           /\ pc' = DocLoopPc(doc_i + 1)
                           /\ exc' = exc
                      ELSE /\ events' = events
                           /\ doc_i' = doc_i
                           /\ pc' = "raised"
                           /\ exc' = "DocumentError"
                   /\ UNCHANGED <<matches, match_pos, processed_pages, page_i>>
              ELSE /\ log' = log \o <<poll, Entry("extract", doc_i, page_i + 1, TRUE)>>
                                 \o (IF rt.ocr_tried
                                     THEN <<Entry("ocr", doc_i, page_i + 1, rt.used_ocr)>>
                                     ELSE <<>>)
                                 \o <<Entry("scan", doc_i, page_i + 1, rt.text # <<>>)>>
                                 \o (IF total_pages > 0
                                        /\ (processed_pages + 1) % ProgressEvery = 0
                                     THEN <<Entry("page_progress", doc_i, page_i + 1, TRUE)>>
                                     ELSE <<>>)
                                 \o (IF last THEN CloseEntry(doc_i, "end") ELSE <<>>)
                   /\ matches' = matches \o found
                   /\ match_pos' = match_pos \o
                         [i \in 1..Len(spans) |->
                             [doc |-> doc_i, page |-> page_i + 1, start |-> spans[i].start]]
                   /\ processed_pages' = processed_pages + 1
                   /\ events' =
                         IF total_pages > 0 /\ (processed_pages + 1) % ProgressEvery = 0
                         THEN Append(events,
                                     [processed |-> processed_pages + 1,
                                      total |-> total_pages,
                                      current_file |-> path,
                                      matches_found |-> Len(matches) + Len(found)])
                         ELSE events
                   /\ exc' = exc
                   /\ IF last
                      THEN /\ doc_open' = ~ClosedOnExit("end")
                           /\ page_i' = page_i
                           /\ doc_i' = doc_i + 1
                           /\ pc' = DocLoopPc(doc_i + 1)
                      ELSE /\ doc_open' = TRUE
                           /\ page_i' = page_i + 1
                           /\ doc_i' = doc_i
                           /\ pc' = "page"
    /\ UNCHANGED <<envVars, outerVars, args, pattern, pdfs, total_pages, scan_i, result>>

\* progress(None) after the loop, and the return of the matches
Finish ==
    /\ pc = "final"
    /\ events' = Append(events, Progress(NoFile))
    /\ result' = ReturnValue(matches)
    /\ pc' = "returned"
    /\ UNCHANGED <<envVars, outerVars, args, exc, pattern, pdfs, matches, processed_pages,
                   total_pages, scan_i, doc_i, page_i, doc_open,
                   log, match_pos, at_cancel>>

SearchStep ==
    \/ Enter
    \/ Enumerate
    \/ PrescanOpen
    \/ InitialProgress
    \/ DocStep
    \/ PageStep
    \/ Finish

Next ==
    \/ Call
    \/ RequestCancel
    \/ SearchStep

Spec == Init /\ [][Next]_vars

(***************************************************************************)
(* search_pdfs over folders of one document whose pages hold text just     *)
(* below, at and just above the OCR threshold.                             *)
(***************************************************************************)
Rep(ch, n) == [i \in 1..n |-> ch]

\* "a" and n - 1 times "b": n characters, none of them whitespace
Dense(n) == <<"a">> \o Rep("b", n - 1)

\* "a", three blanks and n - 2 times "b": n characters once normalised
Padded(n) == <<"a", " ", " ", " ">> \o Rep("b", n - 2)

ThresholdTexts ==
    {Dense(MinChars - 1), Dense(MinChars), Padded(MinChars - 1), Padded(MinChars)}

ThresholdPageKinds ==
    {[readable |-> TRUE, text |-> t, ocr_ok |-> k, ocr |-> <<"A", "b", "a">>] :
        t \in ThresholdTexts, k \in BOOLEAN}

ThresholdWorlds ==
    {FolderOf(<<[openable |-> TRUE, pages |-> ps]>>) :
        ps \in UNION {[1..m -> ThresholdPageKinds] : m \in 1..MaxThresholdPages}}

InitThreshold == InitEnv(ThresholdWorlds) /\ InitRun /\ InitOuter

SpecThreshold == InitThreshold /\ [][Next]_vars

(***************************************************************************)
(* Folders for the replacement of the extracted text by the OCR output:    *)
(* one document whose pages all hold the letter "a" in their sparse        *)
(* extracted text, and whose OCR output is empty, differs from the         *)
(* extracted text, or fails.                                               *)
(***************************************************************************)
PageBlankScan == [readable |-> TRUE, text |-> <<"a">>,
                  ocr_ok |-> TRUE, ocr |-> <<>>]
PageOverlaid  == [readable |-> TRUE, text |-> <<"a", "b">>,
                  ocr_ok |-> TRUE, ocr |-> <<"b", " ", "a", " ", "A">>]

OcrPageKinds == {PageBlankScan, PageOverlaid, PageHit}

OcrWorlds ==
    {FolderOf(<<[openable |-> TRUE, pages |-> ps]>>) :
        ps \in UNION {[1..m -> OcrPageKinds] : m \in 1..MaxOcrPages}}

InitOcr == InitEnv(OcrWorlds) /\ InitRun /\ InitOuter

SpecOcr == InitOcr /\ [][Next]_vars

(***************************************************************************)
(* search_pdfs over folders of one document of MaxLongPages readable       *)
(* pages, long enough for the progress call made every ProgressEvery       *)
(* pages.                                                                  *)
(***************************************************************************)
LongWorlds ==
    {FolderOf(<<[openable |-> TRUE, pages |-> ps]>>) :
        ps \in [1..MaxLongPages -> {PageHit, PageMiss}]}

InitLong == InitEnv(LongWorlds) /\ InitRun /\ InitOuter

SpecLong == InitLong /\ [][Next]_vars

(***************************************************************************)
(* A caller that runs the same request twice over the same folder, never   *)
(* raising its cancellation flag.                                          *)
(***************************************************************************)
\* a fresh invocation of search_pdfs: its locals and the history start anew
StartRun(req) ==
    /\ pc' = "enter"
    /\ args' = req
    /\ exc' = NoError
    /\ pattern' = NoPattern
    /\ pdfs' = <<>>
    /\ matches' = <<>>
    /\ processed_pages' = 0
    /\ total_pages' = 0
    /\ scan_i' = 0
    /\ doc_i' = 0
    /\ page_i' = 0
    /\ doc_open' = FALSE
    /\ result' = <<>>
    /\ events' = <<>>
    /\ log' = <<>>
    /\ match_pos' = <<>>
    /\ at_cancel' = NoSnapshot

\* The caller keeps the list of the first run and calls search_pdfs again
\* with the same request; the folder and the libraries are as they were.
Rerun ==
    /\ pc = "returned"
    /\ run = 1
    /\ run' = 2
    /\ first_result' = result
    /\ StartRun(args)
    /\ UNCHANGED <<envVars, guiVars, unitVars>>

NextRerun ==
    \/ Call
    \/ SearchStep
    \/ Rerun

SpecRerun == Init /\ [][NextRerun]_vars

\* The caller keeps the list of a run that asked for OCR and calls
\* search_pdfs again with the same request but include_ocr = False.
RerunWithoutOcr ==
    /\ pc = "returned"
    /\ run = 1
    /\ args.include_ocr
    /\ run' = 2
    /\ first_result' = result
    /\ StartRun([args EXCEPT !.include_ocr = FALSE])
    /\ UNCHANGED <<envVars, guiVars, unitVars>>

NextOcrOff ==
    \/ Call
    \/ SearchStep
    \/ RerunWithoutOcr

SpecOcrOff == Init /\ [][NextOcrOff]_vars

(***************************************************************************)
(* The window of pdf_search_gui.py: the UI thread runs _start_search,      *)
(* _cancel_search and _poll_queue, the worker thread runs _worker_run,     *)
(* that is search_pdfs with should_cancel reading _stop_event (the flag    *)
(* stop) and on_progress putting each Progress on _ui_queue.               *)
(***************************************************************************)
\* the folders of the window's model
GuiWorlds ==
    {FolderOf(docs) : docs \in UNION {DocSeqs(n, MaxGuiPages) : n \in 0..MaxDocs}}

Msg(kind, payload) == [kind |-> kind, payload |-> payload]

\* what on_progress has put on the queue since the search started
ProgressMsgs == [i \in 1..Len(events) |-> Msg("progress", events[i])]

\* everything put on the queue since the search started, in order
Sent == ProgressMsgs \o worker_tail

\* the messages the queue holds
_ui_queue == SubSeq(Sent, ui_taken + 1, Len(Sent))

\* what _worker_run puts once search_pdfs has returned or raised
WorkerTail ==
    IF pc = "returned"
    THEN [i \in 1..Len(result) |-> Msg("match", result[i])] \o <<Msg("done", FALSE)>>
    ELSE <<Msg("error", exc), Msg("done", TRUE)>>

\* the window as _poll_queue changes it
Window == [status |-> status, dialog |-> dialog, results |-> _results, busy |-> busy]

\* one message handled by _poll_queue; flag is _stop_event.is_set()
Handle(w, msg, flag) ==
    CASE msg.kind = "progress" ->
            [w EXCEPT !.status = IF msg.payload.current_file # NoFile
                                 THEN "Searching" ELSE "Working..."]
      [] msg.kind = "match" -> [w EXCEPT !.results = Append(@, msg.payload)]
      [] msg.kind = "error" -> [w EXCEPT !.dialog = "Error"]
      [] msg.kind = "done" ->
            [w EXCEPT !.status = IF flag THEN "Cancelled" ELSE "Done",
                      !.busy = FALSE]

RECURSIVE Drain(_, _, _)
Drain(w, msgs, flag) ==
    IF msgs = <<>> THEN w ELSE Drain(Handle(w, Head(msgs), flag), Tail(msgs), flag)

\* The Search button.  It is disabled while the window is busy.
_start_search ==
    /\ ~busy
    /\ ~worker_alive
    /\ \E form \in Requests :
          IF ~form.folder_ok
          THEN /\ dialog' = "Invalid folder"
               /\ UNCHANGED <<envVars, runVars, histVars, callerVars, unitVars, worker_alive,
                              worker_tail, ui_taken, busy, status, _results>>
          ELSE IF Strip(form.query) = <<>>
          THEN /\ dialog' = "Missing search"
               /\ UNCHANGED <<envVars, runVars, histVars, callerVars, unitVars, worker_alive,
                              worker_tail, ui_taken, busy, status, _results>>
          ELSE /\ _results' = <<>>
               /\ status' = "Starting..."
               /\ stop' = FALSE
               /\ busy' = TRUE
               /\ worker_alive' = TRUE
               /\ worker_tail' = <<>>
               /\ ui_taken' = 0
               /\ StartRun([form EXCEPT !.query = Strip(form.query)])
               /\ UNCHANGED <<files, caps, callerVars, unitVars, dialog>>

\* The Cancel button.  It is enabled while the window is busy.
_cancel_search ==
    /\ busy
    /\ stop' = TRUE
    /\ status' = "Cancelling..."
    /\ UNCHANGED <<files, caps, runVars, histVars, callerVars, unitVars, worker_alive,
                   worker_tail, ui_taken, busy, dialog, _results>>

\* The end of _worker_run: the matches and "done", or the error and "done".
_worker_run ==
    /\ worker_alive
    /\ pc \in {"returned", "raised"}
    /\ worker_tail' = WorkerTail
    /\ worker_alive' = FALSE
    /\ UNCHANGED <<envVars, runVars, histVars, callerVars, unitVars,
                   ui_taken, busy, status, dialog, _results>>

\* _poll_queue: the UI thread takes every message the queue holds.
_poll_queue ==
    /\ _ui_queue # <<>>
    /\ LET w == Drain(Window, _ui_queue, stop)
       IN  /\ status' = w.status
           /\ dialog' = w.dialog
           /\ _results' = w.results
           /\ busy' = w.busy
    /\ ui_taken' = Len(Sent)
    /\ UNCHANGED <<envVars, runVars, histVars, callerVars, unitVars, worker_alive, worker_tail>>

\* the worker thread inside search_pdfs
WorkerSearch ==
    /\ worker_alive
    /\ SearchStep

NextGui ==
    \/ _start_search
    \/ _cancel_search
    \/ WorkerSearch
    \/ _worker_run
    \/ _poll_queue

InitGui == InitEnv(GuiWorlds) /\ InitRun /\ InitOuter

SpecGui == InitGui /\ [][NextGui]_vars
(***************************************************************************)
(* search_worker of pdf_search_mp.py, the body of a child process: it      *)
(* runs search_pdfs with should_cancel reading cancel_event (the flag      *)
(* stop) and on_progress putting each Progress on out_queue, then puts the *)
(* matches and "done", or the error and "done".  worker_alive and          *)
(* worker_tail are the process and what it put after the search.           *)
(***************************************************************************)
\* str(path), and None for no path
Str(path) == [str |-> path]
None == [none |-> TRUE]

_match_to_payload(m) == [m EXCEPT !.pdf_path = Str(m.pdf_path)]

_progress_to_payload(p) ==
    [processed |-> p.processed,
     total |-> p.total,
     current_file |-> IF p.current_file # NoFile THEN Str(p.current_file) ELSE None,
     matches_found |-> p.matches_found]

MpProgress(p) == [type |-> "progress", data |-> _progress_to_payload(p)]
MpMatch(m) == [type |-> "match", data |-> _match_to_payload(m)]
MpError(e) == [type |-> "error", message |-> e]
MpDone == [type |-> "done"]

\* a worker that keeps the matches of a cancelled run to itself
MpTail_dropsOnCancel ==
    IF pc = "returned"
    THEN (IF stop THEN <<>> ELSE [i \in 1..Len(result) |-> MpMatch(result[i])])
            \o <<MpDone>>
    ELSE <<MpError(exc), MpDone>>

\* what search_worker puts once search_pdfs has returned or raised
MpTail ==
    IF pc = "returned"
    THEN [i \in 1..Len(result) |-> MpMatch(result[i])] \o <<MpDone>>
    ELSE <<MpError(exc), MpDone>>

\* everything search_worker has put on out_queue, in order
out_queue == [i \in 1..Len(events) |-> MpProgress(events[i])] \o worker_tail

\* The child process starts search_worker with the arguments it was given;
\* a dictionary without "folder" or "query" raises before search_pdfs runs.
MpStart ==
    /\ pc = "idle"
    /\ ~worker_alive
    /\ worker_alive' = TRUE
    /\ \E complete \in BOOLEAN :
          IF complete
          THEN \E req \in Requests : StartRun(req)
          ELSE /\ pc' = "raised"
               /\ exc' = "KeyError"
               /\ UNCHANGED <<args, pattern, pdfs, matches, processed_pages, total_pages,
                              scan_i, doc_i, page_i, doc_open, result, histVars>>
    /\ UNCHANGED <<envVars, callerVars, unitVars,
                   worker_tail, ui_taken, busy, status, dialog, _results>>

\* The end of search_worker.
MpFinish ==
    /\ worker_alive
    /\ pc \in {"returned", "raised"}
    /\ worker_tail' = MpTail
    /\ worker_alive' = FALSE
    /\ UNCHANGED <<envVars, runVars, histVars, callerVars, unitVars,
                   ui_taken, busy, status, dialog, _results>>

NextMp ==
    \/ MpStart
    \/ RequestCancel
    \/ SearchStep
    \/ MpFinish

SpecMp == InitGui /\ [][NextMp]_vars

(***************************************************************************)
(* The window of pdf_search_aio.py.  Its worker thread, _search_worker,    *)
(* holds its own copy of the search loop and puts every message on         *)
(* _ui_queue itself: worker_tail is here everything put since the search   *)
(* started, and events stays empty.  The Cancel button is the one of       *)
(* pdf_search_gui.py.                                                      *)
(***************************************************************************)
\* "{N}" stands for a repetition whose count is beyond what the regular
\* expression engine allows, as in a{4294967296}: one symbol of a query.
HugeRepeat == "{N}"

AioQueries == {<<>>, <<"a">>, <<"*">>, <<"a", HugeRepeat>>}

\* what the form of the window can hold when Search is pressed
AioRequests ==
    {r \in [folder_ok : BOOLEAN, query : AioQueries, recursive : {TRUE},
            use_regex : BOOLEAN, ignore_case : {TRUE}, include_ocr : BOOLEAN] :
        (~r.folder_ok \/ r.query = <<>>) => (~r.use_regex /\ ~r.include_ocr)}

\* What re.compile raises for a query: re.error for a malformed expression,
\* OverflowError (not an re.error) for a repetition count that is too large,
\* nothing for an escaped literal.
compile_error(query, use_regex) ==
    IF ~use_regex THEN NoError
    ELSE IF ~RegexValid(query) THEN "re.error"
    ELSE IF \E i \in 2..Len(query) : query[i] = HugeRepeat THEN "OverflowError"
    ELSE NoError

\* iter_pdfs of pdf_search_aio.py: the glob result, sorted
aio_iter_pdfs(globbed) == Sorted(globbed)

\* the Match put for one span of a page; OCR text is marked in the snippet
AioMatch(path, page_index, rt, span) ==
    [pdf_path |-> path,
     page_number_1based |-> page_index + 1,
     snippet |-> (IF rt.used_ocr THEN <<"[OCR] ">> ELSE <<>>)
                    \o make_snippet(rt.text, span.start, span.end, SnippetRadius)]

AioPageMatches(pat, path, page_index, rt) ==
    LET spans == PageSpans(pat, rt.text)
    IN  [i \in 1..Len(spans) |-> AioMatch(path, page_index, rt, spans[i])]

AioDone == Msg("done", <<>>)

\* what the worker puts once it has left a document: the status line (label),
\* and the progress by file count when the page total is unknown
AfterDocument(label) ==
    <<Msg("status", label)>> \o
    (IF total_pages = 0 THEN <<Msg("progress", <<doc_i, Len(pdfs)>>)>> ELSE <<>>)

\* The Search button of pdf_search_aio.py.  It is disabled while the window
\* is busy.
aio_start_search ==
    /\ ~busy
    /\ ~worker_alive
    /\ \E form \in AioRequests :
          LET refusal ==
                IF ~caps.fitz THEN "Missing dependency"
                ELSE IF ~form.folder_ok THEN "Invalid folder"
                ELSE IF Strip(form.query) = <<>> THEN "Missing search"
                ELSE IF form.include_ocr /\ ~caps.ocr THEN "OCR not available"
                ELSE "none"
          IN  IF refusal # "none"
              THEN /\ dialog' = refusal
                   /\ UNCHANGED <<envVars, runVars, histVars, callerVars, unitVars,
                                  worker_alive, worker_tail, ui_taken, busy, status,
                                  _results>>
              ELSE /\ _results' = <<>>
                   /\ status' = "Starting..."
                   /\ stop' = FALSE
                   /\ busy' = TRUE
                   /\ worker_alive' = TRUE
                   /\ worker_tail' = <<>>
                   /\ ui_taken' = 0
                   /\ StartRun([form EXCEPT !.query = Strip(form.query)])
                   /\ UNCHANGED <<files, caps, callerVars, unitVars, dialog>>

\* _search_worker up to the page count: the compilation, of which only
\* re.error is caught, and the enumeration.
aio_worker_begin ==
    /\ worker_alive
    /\ pc = "enter"
    /\ LET err == compile_error(args.query, args.use_regex)
       IN  IF err = "re.error"
           THEN /\ worker_tail' = worker_tail \o <<Msg("error", "Regex error"), AioDone>>
                /\ pc' = "returned"
                /\ worker_alive' = FALSE
                /\ UNCHANGED <<exc, pattern, pdfs, scan_i>>
           ELSE IF err # NoError
           THEN /\ exc' = err
                /\ pc' = "raised"
                /\ worker_alive' = FALSE
                /\ UNCHANGED <<worker_tail, pattern, pdfs, scan_i>>
           ELSE /\ pattern' = compile_pattern(args.query, args.use_regex, args.ignore_case)
                /\ \E globbed \in Orders(GlobSet(files, args.recursive)) :
                      pdfs' = aio_iter_pdfs(globbed)
                /\ scan_i' = 1
                /\ IF pdfs' = <<>>
                   THEN /\ worker_tail' = worker_tail \o
                              <<Msg("status", "No PDFs found."), Msg("progress", <<0, 1>>),
                                AioDone>>
                        /\ pc' = "returned"
                        /\ worker_alive' = FALSE
                   ELSE /\ worker_tail' = Append(worker_tail, Msg("status", "Found"))
                        /\ pc' = "prescan"
                        /\ UNCHANGED worker_alive
                /\ UNCHANGED exc
    /\ UNCHANGED <<envVars, histVars, callerVars, unitVars, args, matches, processed_pages,
                   total_pages, doc_i, page_i, doc_open, result, ui_taken, busy, status,
                   dialog, _results>>

\* One turn of the page count: the flag is read, then the document is opened.
aio_worker_count ==
    /\ worker_alive
    /\ pc = "prescan"
    /\ IF stop
       THEN /\ worker_tail' = Append(worker_tail, AioDone)
            /\ pc' = "returned"
            /\ worker_alive' = FALSE
            /\ UNCHANGED <<total_pages, scan_i, doc_i>>
       ELSE LET d == DocAt(files, pdfs[scan_i])
                last == ~d.openable \/ scan_i = Len(pdfs)
            IN  /\ total_pages' = IF d.openable THEN total_pages + Len(d.pages) ELSE 0
                /\ scan_i' = scan_i + 1
                /\ pc' = IF last THEN "doc" ELSE "prescan"
                /\ doc_i' = IF last THEN 1 ELSE doc_i
                /\ UNCHANGED <<worker_tail, worker_alive>>
    /\ UNCHANGED <<envVars, histVars, callerVars, unitVars, args, exc, pattern, pdfs, matches,
                   processed_pages, page_i, doc_open, result, ui_taken, busy, status,
                   dialog, _results>>

\* The head of the document loop: the flag is read, then the document is
\* opened; a document that cannot be opened, or has no page, is left at once.
aio_worker_doc ==
    /\ worker_alive
    /\ pc = "doc"
    /\ IF stop
       THEN /\ pc' = "final"
            /\ UNCHANGED <<worker_tail, doc_i, page_i, doc_open>>
       ELSE LET d == DocAt(files, pdfs[doc_i])
            IN  IF d.openable /\ d.pages # <<>>
                THEN /\ pc' = "page"
                     /\ page_i' = 1
                     /\ doc_open' = TRUE
                     /\ UNCHANGED <<worker_tail, doc_i>>
                ELSE /\ worker_tail' = worker_tail \o
                            AfterDocument(IF d.openable THEN "Searching" ELSE "Error reading")
                     /\ doc_i' = doc_i + 1
                     /\ pc' = IF doc_i = Len(pdfs) THEN "final" ELSE "doc"
                     /\ UNCHANGED <<page_i, doc_open>>
    /\ UNCHANGED <<envVars, histVars, callerVars, unitVars, args, exc, pattern, pdfs, matches,
                   processed_pages, total_pages, scan_i, result, worker_alive, ui_taken,
                   busy, status, dialog, _results>>

\* One turn of the page loop: the flag is read, the text is extracted, OCR
\* replaces it when asked for and needed, every match is put on the queue,
\* then the progress.  After the last page, a break or an error the
\* document is closed and left.
aio_worker_page ==
    /\ worker_alive
    /\ pc = "page"
    /\ LET path == pdfs[doc_i]
           page == DocAt(files, path).pages[page_i]
           last == page_i = Len(DocAt(files, path).pages)
           next == IF doc_i = Len(pdfs) THEN "final" ELSE "doc"
       IN  IF stop \/ ~page.readable
           THEN /\ worker_tail' = worker_tail \o
                       AfterDocument(IF stop THEN "Searching" ELSE "Error reading")
                /\ doc_i' = doc_i + 1
                /\ doc_open' = FALSE
                /\ pc' = next
                /\ UNCHANGED <<matches, processed_pages, page_i>>
           ELSE LET rt == ResolveText(page, args.include_ocr, caps.ocr)
                    ms == AioPageMatches(pattern, path, page_i - 1, rt)
                    put == [i \in 1..Len(ms) |-> Msg("match", ms[i])] \o
                           (IF total_pages > 0
                            THEN <<Msg("progress", <<processed_pages + 1, total_pages>>)>>
                            ELSE <<>>)
                IN  /\ matches' = matches \o ms
                    /\ processed_pages' = processed_pages + 1
                    /\ IF last
                       THEN /\ worker_tail' = worker_tail \o put \o AfterDocument("Searching")
                            /\ doc_i' = doc_i + 1
                            /\ doc_open' = FALSE
                            /\ pc' = next
                            /\ UNCHANGED page_i
                       ELSE /\ worker_tail' = worker_tail \o put
                            /\ page_i' = page_i + 1
                            /\ UNCHANGED <<doc_i, doc_open, pc>>
    /\ UNCHANGED <<envVars, histVars, callerVars, unitVars, args, exc, pattern, pdfs,
                   total_pages, scan_i, result, worker_alive, ui_taken, busy, status,
                   dialog, _results>>

\* The end of _search_worker: the closing status line and "done".
aio_worker_end ==
    /\ worker_alive
    /\ pc = "final"
    /\ worker_tail' = worker_tail \o
          (IF stop THEN <<Msg("status", "Cancelled")>>
           ELSE <<Msg("status", "Done"), Msg("progress", <<1, 1>>)>>) \o <<AioDone>>
    /\ pc' = "returned"
    /\ worker_alive' = FALSE
    /\ UNCHANGED <<envVars, histVars, callerVars, unitVars, args, exc, pattern, pdfs, matches,
                   processed_pages, total_pages, scan_i, doc_i, page_i, doc_open, result,
                   ui_taken, busy, status, dialog, _results>>

\* one message handled by _poll_queue of pdf_search_aio.py
AioHandle(w, msg) ==
    CASE msg.kind = "status" -> [w EXCEPT !.status = msg.payload]
      [] msg.kind = "progress" -> w
      [] msg.kind = "match" -> [w EXCEPT !.results = Append(@, msg.payload)]
      [] msg.kind = "error" -> [w EXCEPT !.dialog = "Error"]
      [] msg.kind = "done" -> [w EXCEPT !.busy = FALSE]

RECURSIVE AioDrain(_, _)
AioDrain(w, msgs) ==
    IF msgs = <<>> THEN w ELSE AioDrain(AioHandle(w, Head(msgs)), Tail(msgs))

\* _poll_queue of pdf_search_aio.py: the UI thread takes every message the
\* queue holds.
aio_poll_queue ==
    /\ _ui_queue # <<>>
    /\ LET w == AioDrain(Window, _ui_queue)
       IN  /\ status' = w.status
           /\ dialog' = w.dialog
           /\ _results' = w.results
           /\ busy' = w.busy
    /\ ui_taken' = Len(Sent)
    /\ UNCHANGED <<envVars, runVars, histVars, callerVars, unitVars, worker_alive, worker_tail>>

NextAio ==
    \/ aio_start_search
    \/ _cancel_search
    \/ aio_worker_begin
    \/ aio_worker_count
    \/ aio_worker_doc
    \/ aio_worker_page
    \/ aio_worker_end
    \/ aio_poll_queue

SpecAio == InitGui /\ [][NextAio]_vars
(***************************************************************************)
(* Functions of the module called on their own, on every argument of a     *)
(* bounded set.  Nothing else runs: the folder holds no PDF and            *)
(* search_pdfs is not called.                                              *)
(***************************************************************************)
SeqsUpTo(S, n) == UNION {[1..m -> S] : m \in 0..n}

InitAlone ==
    /\ files = {NotesFile}
    /\ caps = [fitz |-> TRUE, ocr |-> TRUE]
    /\ stop = FALSE
    /\ InitRun
    /\ InitCallerGui
    /\ unit_out = NoReturn

\* compile_pattern in literal mode, then finditer on a text
LiteralCalls ==
    [kind : {"literal"},
     query : SeqsUpTo({"a", "A", ".", "*"}, MaxQueryLen) \ {<<>>},
     text : SeqsUpTo({"a", "A", ".", "*"}, MaxTextLen),
     ignore_case : BOOLEAN]

SearchLiteral ==
    /\ unit_in.kind = "literal"
    /\ ~unit_out.done
    /\ unit_out' = [done |-> TRUE,
                    val |-> finditer(compile_pattern(unit_in.query, FALSE,
                                                     unit_in.ignore_case),
                                     unit_in.text)]
    /\ UNCHANGED <<envVars, runVars, histVars, callerVars, guiVars, unit_in>>

InitLiteral == InitAlone /\ unit_in \in LiteralCalls

SpecLiteral == InitLiteral /\ [][SearchLiteral]_vars

\* make_snippet on a text, a span of it and a radius
SnippetCalls ==
    {c \in [kind : {"snippet"},
            text : SeqsUpTo({"a", " ", "\n"}, MaxTextLen),
            start : 0..MaxTextLen, end : 0..MaxTextLen, radius : 0..MaxRadius] :
        c.start <= c.end /\ c.end <= Len(c.text)}

Snip ==
    /\ unit_in.kind = "snippet"
    /\ ~unit_out.done
    /\ unit_out' = [done |-> TRUE,
                    val |-> make_snippet(unit_in.text, unit_in.start, unit_in.end,
                                         unit_in.radius)]
    /\ UNCHANGED <<envVars, runVars, histVars, callerVars, guiVars, unit_in>>

InitSnippet == InitAlone /\ unit_in \in SnippetCalls

SpecSnippet == InitSnippet /\ [][Snip]_vars

\* the scan of one page's text for a literal query (search_pdfs, "if text:")
PageScanCalls ==
    [kind : {"scan"},
     query : SeqsUpTo({"a", "b"}, MaxQueryLen) \ {<<>>},
     text : SeqsUpTo({"a", "b"}, MaxTextLen),
     ignore_case : BOOLEAN]

ScanPage ==
    /\ unit_in.kind = "scan"
    /\ ~unit_out.done
    /\ unit_out' =
          [done |-> TRUE,
           val |-> PageMatches(compile_pattern(unit_in.query, FALSE, unit_in.ignore_case),
                               <<1>>, 0,
                               [text |-> unit_in.text, used_ocr |-> FALSE,
                                ocr_tried |-> FALSE],
                               SnippetRadius)]
    /\ UNCHANGED <<envVars, runVars, histVars, callerVars, guiVars, unit_in>>

InitPageScan == InitAlone /\ unit_in \in PageScanCalls

SpecPageScan == InitPageScan /\ [][ScanPage]_vars

(***************************************************************************)
(* The launcher, run_pdf_search.py: main() called on its own.  unit_in is  *)
(* what the machine answers (how each attempt to import and run the window *)
(* ends, whether requirements.txt exists, how each pip run ends) and       *)
(* unit_out holds the locals of main and what it has done so far.          *)
(***************************************************************************)
\* the attempts the environment has an answer for
MaxImports == 3

\* how "from pdf_search_gui import main; return gui_main()" can end
AttemptOutcomes == {"returns", "ModuleNotFoundError", "Exception"}

LauncherWorlds ==
    [kind : {"main"}, outcome : [1..MaxImports -> AttemptOutcomes],
     req_exists : BOOLEAN, pip : BOOLEAN, pip_user : BOOLEAN]

LauncherStart ==
    [done |-> FALSE, val |-> 0, at |-> "import", attempts |-> 0, imports |-> 0,
     installs |-> 0, pip_runs |-> <<>>, why |-> "none"]

\* a loop that gives up only after the third ModuleNotFoundError
GivesUp_afterTwoRetries(attempts) == attempts > 2

\* if attempts > 1: ... return 1
GivesUp(attempts) == attempts > 1

\* _install_missing_module: the pip runs it makes, and whether it raises.
\* The first run is tried, and on failure the same run with --user.
_install_missing_module(w) ==
    LET what == IF w.req_exists THEN "-r requirements.txt" ELSE "package"
    IN  IF w.pip THEN [ok |-> TRUE, runs |-> <<<<what>>>>]
        ELSE [ok |-> w.pip_user, runs |-> <<<<what>>, <<"--user", what>>>>]

\* One turn of the loop of main up to the install: the import and the window.
LauncherTry ==
    /\ unit_in.kind = "main"
    /\ unit_out.at = "import"
    /\ unit_out.imports < MaxImports
    /\ LET n == unit_out.imports + 1
           o == unit_in.outcome[n]
           a == unit_out.attempts + 1
       IN  unit_out' =
             IF o = "returns"
             THEN [unit_out EXCEPT !.imports = n, !.at = "exit", !.done = TRUE,
                                   !.val = 0, !.why = "returned"]
             ELSE IF o = "Exception"
             THEN [unit_out EXCEPT !.imports = n, !.at = "exit", !.done = TRUE,
                                   !.val = 1, !.why = "exception"]
             ELSE IF GivesUp(a)
             THEN [unit_out EXCEPT !.imports = n, !.attempts = a, !.at = "exit",
                                   !.done = TRUE, !.val = 1, !.why = "missing again"]
             ELSE [unit_out EXCEPT !.imports = n, !.attempts = a, !.at = "install"]
    /\ UNCHANGED <<envVars, runVars, histVars, callerVars, guiVars, unit_in>>

\* The auto-install after a ModuleNotFoundError, then "continue".
LauncherInstall ==
    /\ unit_in.kind = "main"
    /\ unit_out.at = "install"
    /\ LET r == _install_missing_module(unit_in)
       IN  unit_out' =
             IF r.ok
             THEN [unit_out EXCEPT !.installs = @ + 1, !.pip_runs = @ \o r.runs,
                                   !.at = "import"]
             ELSE [unit_out EXCEPT !.installs = @ + 1, !.pip_runs = @ \o r.runs,
                                   !.at = "exit", !.done = TRUE, !.val = 1,
                                   !.why = "install failed"]
    /\ UNCHANGED <<envVars, runVars, histVars, callerVars, guiVars, unit_in>>

NextLauncher == LauncherTry \/ LauncherInstall

InitLauncher ==
    /\ files = {NotesFile}
    /\ caps = [fitz |-> TRUE, ocr |-> TRUE]
    /\ stop = FALSE
    /\ InitRun
    /\ InitCallerGui
    /\ unit_in \in LauncherWorlds
    /\ unit_out = LauncherStart

SpecLauncher == InitLauncher /\ [][NextLauncher]_vars
(***************************************************************************)
(* Vocabulary of the properties.                                           *)
(***************************************************************************)
LogIdx == 1..Len(log)
PageOps == {"extract", "ocr", "scan"}
DocOps == {"open_count", "open"} \cup PageOps
Terminal == {"returned", "raised"}
Started == pc \notin {"idle", "enter"}

IsPrefix(a, b) == Len(a) <= Len(b) /\ SubSeq(b, 1, Len(a)) = a

\* the first page of the first document has been processed before entry i
AfterFirstPage(i) ==
    \E h \in 1..(i - 1) : log[h].op = "scan" /\ log[h].doc = 1 /\ log[h].page = 1

\* a poll that returned true is entry i of the log
TruePollAt(i) == log[i].op = "poll" /\ log[i].val

\* The matches of a run that nothing cancels: document by document in the
\* order of pdfs, page by page up to the first page that cannot be read.
RECURSIVE DocMatchesFrom(_, _, _)
DocMatchesFrom(path, pages, i) ==
    IF i > Len(pages) THEN <<>>
    ELSE IF ~pages[i].readable THEN <<>>
    ELSE PageMatches(pattern, path, i - 1,
                     ResolveText(pages[i], args.include_ocr, caps.ocr), SnippetRadius)
            \o DocMatchesFrom(path, pages, i + 1)

RECURSIVE AllMatchesFrom(_)
AllMatchesFrom(d) ==
    IF d > Len(pdfs) THEN <<>>
    ELSE LET doc == DocAt(files, pdfs[d])
         IN  (IF doc.openable THEN DocMatchesFrom(pdfs[d], doc.pages, 1) ELSE <<>>)
                \o AllMatchesFrom(d + 1)

\* the PDFs the request is to search, stated on the folder itself
WantedPdfs == {f \in files : f.is_pdf /\ (args.recursive \/ Len(f.path) = 1)}

\* C1: once a poll has returned true after the first page of the first
\* document, no page of a later document is extracted, OCR'd or scanned, and
\* the matches held when the cancellation was observed open the returned list.
C1_CancelKeepsMatchesSkipsLaterDocs ==
    /\ \A i \in LogIdx : (TruePollAt(i) /\ AfterFirstPage(i)) =>
          \A j \in LogIdx : j > i => ~(log[j].op \in PageOps /\ log[j].doc > 1)
    /\ (pc = "returned" /\ at_cancel.seen) => IsPrefix(at_cancel.matches, result)

\* a run over two documents cancelled before page 2 of the first, which had
\* found matches on page 1, has returned
C1_Witness ==
    /\ pc = "returned"
    /\ Len(pdfs) >= 2
    /\ DocAt(files, pdfs[2]).openable /\ Len(DocAt(files, pdfs[2]).pages) >= 1
    /\ \E i \in LogIdx : TruePollAt(i) /\ log[i].doc = 1 /\ log[i].page = 2
    /\ at_cancel.seen /\ at_cancel.matches # <<>>
    /\ result = at_cancel.matches

\* C2: a document that cannot be opened or read never aborts the run: no
\* exception escapes because of it, and a run that no poll cancelled has
\* opened every document of the list and returns the matches of every page
\* that could be read, those before the failure included.
C2_DocumentFailureIsolated ==
    /\ exc # "DocumentError"
    /\ (pc = "returned" /\ ~at_cancel.seen) =>
          /\ \A d \in 1..Len(pdfs) : \E i \in LogIdx : log[i].op = "open" /\ log[i].doc = d
          /\ result = AllMatchesFrom(1)

\* the first document failed on its second page after matches on its first,
\* and the second document was then scanned and contributed matches
C2_Witness ==
    /\ pc = "returned"
    /\ \E i \in LogIdx : log[i].op = "extract" /\ ~log[i].val /\ log[i].doc = 1
                           /\ log[i].page = 2
    /\ \E j \in LogIdx : log[j].op = "scan" /\ log[j].doc = 2
    /\ \E m, n \in 1..Len(result) : result[m].pdf_path = pdfs[1] /\ result[n].pdf_path = pdfs[2]

\* C3: a request whose folder is invalid or whose query is empty after
\* trimming ends with an error raised to the caller (ValueError when the PDF
\* library is present) before any enumeration, open, read or progress event.
C3_InvalidRequestFailsFast ==
    (Started /\ (~args.folder_ok \/ Strip(args.query) = <<>>)) =>
        /\ pc = "raised"
        /\ caps.fitz => exc = "ValueError"
        /\ log = <<>>
        /\ events = <<>>

\* a blank query on a valid folder that holds PDFs was rejected
C3_Witness ==
    /\ pc = "raised" /\ exc = "ValueError"
    /\ args.folder_ok /\ args.query = <<" ">>
    /\ \E f \in files : f.is_pdf

\* C4: with use_regex set and a malformed expression, the run ends with an
\* error raised to the caller (the compilation error when the request is
\* otherwise valid) before any enumeration, open, read or progress event.
C4_BadRegexFailsBeforeIO ==
    (Started /\ args.use_regex /\ ~RegexValid(Strip(args.query))) =>
        /\ pc = "raised"
        /\ (caps.fitz /\ args.folder_ok) => exc = "re.error"
        /\ log = <<>>
        /\ events = <<>>

\* the expression "*" on a valid folder that holds PDFs was rejected
C4_Witness ==
    /\ pc = "raised" /\ exc = "re.error"
    /\ args.use_regex /\ args.query = <<"*">>
    /\ \E f \in files : f.is_pdf

\* C5: a valid request over a folder with no PDF under its recursive setting
\* raises nothing, opens no document and returns the empty list.
C5_NoPdfsEmptyResult ==
    (pc \notin {"idle", "enter", "enumerate"} /\ RequestError(caps.fitz, args) = NoError
        /\ WantedPdfs = {}) =>
        /\ pc \in {"progress0", "final", "returned"}
        /\ \A i \in LogIdx : log[i].op \notin DocOps
        /\ matches = <<>>
        /\ pc = "returned" => result = <<>>

\* a non-recursive search of a folder whose only PDF lies in a sub-folder
\* has returned
C5_Witness ==
    /\ pc = "returned" /\ result = <<>>
    /\ ~args.recursive
    /\ WantedPdfs = {} /\ \E f \in files : f.is_pdf

\* C6: the matches are ordered by (path, page, start offset): for positions
\* i < j the key at i is less than or equal to the key at j, with paths in
\* the order of Path.
KeyLeq(i, j) ==
    LET a == matches[i]
        b == matches[j]
    IN  \/ PathLess(a.pdf_path, b.pdf_path)
        \/ /\ a.pdf_path = b.pdf_path
           /\ \/ a.page_number_1based < b.page_number_1based
              \/ /\ a.page_number_1based = b.page_number_1based
                 /\ match_pos[i].start <= match_pos[j].start

C6_MatchesOrdered ==
    /\ Len(match_pos) = Len(matches)
    /\ \A i, j \in 1..Len(matches) : i < j => KeyLeq(i, j)
    /\ pc = "returned" => result = matches

\* a returned list with two matches on one page, matches on two pages of one
\* document and matches in two documents
C6_Witness ==
    /\ pc = "returned"
    /\ \E i, j \in 1..Len(result) :
          /\ result[i].pdf_path = result[j].pdf_path
          /\ result[i].page_number_1based = result[j].page_number_1based
          /\ match_pos[i].start < match_pos[j].start
    /\ \E i, j \in 1..Len(result) :
          /\ result[i].pdf_path = result[j].pdf_path
          /\ result[i].page_number_1based < result[j].page_number_1based
    /\ \E i, j \in 1..Len(result) : PathLess(result[i].pdf_path, result[j].pdf_path)

(***************************************************************************)
(* C7: two runs of search_pdfs with the same request over the same         *)
(* unchanged folder, neither of them cancelled, return Match lists that    *)
(* are equal element by element in the same order, whatever the order in   *)
(* which the file system lists the folder in either run.                   *)
(***************************************************************************)
C7_SameRequestSameMatches ==
    (run = 2 /\ pc = "returned") => result = first_result

\* the second run has returned several matches found in two documents
C7_Witness ==
    /\ run = 2
    /\ pc = "returned"
    /\ result = first_result
    /\ \E i, j \in 1..Len(result) : result[i].pdf_path # result[j].pdf_path

\* C8: no document is opened and no page is processed without a poll of the
\* cancellation flag since the previous open or page step.
PolledBefore(j) ==
    \E i \in 1..(j - 1) :
        /\ log[i].op = "poll"
        /\ \A k \in (i + 1)..(j - 1) : log[k].op \notin DocOps

C8_EveryOpenAndPagePolled ==
    \A j \in LogIdx : log[j].op \in {"open_count", "open", "extract"} => PolledBefore(j)

(***************************************************************************)
(* C9: the final status of a run tells a cancelled run from a completed    *)
(* one.  In the window: once "done" has been handled for a search that     *)
(* returned, the status reads "Cancelled" exactly when a poll inside       *)
(* search_pdfs observed the flag, and "Done" exactly when no poll did and  *)
(* every document was visited; for every interleaving of the Cancel        *)
(* button with the worker finishing and the UI thread polling the queue.   *)
(***************************************************************************)
C9_StatusTellsCancelledFromCompleted ==
    (~busy /\ pc = "returned" /\ status \in {"Cancelled", "Done"}) =>
        /\ status = "Cancelled" <=> at_cancel.seen
        /\ status = "Done" <=> ~at_cancel.seen

\* C10: every run ends, and in exactly one of three outcomes: an error raised
\* before any document was touched, a cancelled run returning the matches
\* found so far, or a completed run returning all matches; no exception
\* escapes once a document has been opened.  That a run ends is stated by a
\* measure: a run that has not ended can take a step, every step of the run
\* adds to Spent, and Spent never exceeds a budget fixed by the folder.
\* The steps of the run have no guard but their position, so a run can step
\* wherever the indices its step reads are in range (CanStep).
FailedBeforeStart ==
    pc = "raised" /\ exc # NoError /\ \A i \in LogIdx : log[i].op \notin DocOps

CancelledWithMatchesSoFar ==
    pc = "returned" /\ at_cancel.seen /\ result = at_cancel.matches

CompletedWithAllMatches ==
    pc = "returned" /\ ~at_cancel.seen /\ result = AllMatchesFrom(1)

OneOutcome ==
    /\ FailedBeforeStart \/ CancelledWithMatchesSoFar \/ CompletedWithAllMatches
    /\ ~(FailedBeforeStart /\ CancelledWithMatchesSoFar)
    /\ ~(FailedBeforeStart /\ CompletedWithAllMatches)
    /\ ~(CancelledWithMatchesSoFar /\ CompletedWithAllMatches)

RECURSIVE PagesIn(_)
PagesIn(fs) ==
    IF fs = {} THEN 0
    ELSE LET f == CHOOSE g \in fs : TRUE
         IN  Len(f.doc.pages) + PagesIn(fs \ {f})

Spent ==
    Len(log) + Len(events)
        + (IF pc = "idle" THEN 0 ELSE IF pc = "enter" THEN 1 ELSE 2)

Budget == 5 + 5 * Cardinality(files) + 5 * PagesIn(files)

CanStep ==
    CASE pc = "prescan" -> scan_i \in 1..Len(pdfs)
      [] pc = "doc" -> doc_i \in 1..Len(pdfs)
      [] pc = "page" -> /\ doc_i \in 1..Len(pdfs)
                        /\ doc_open
                        /\ DocAt(files, pdfs[doc_i]).openable
                        /\ page_i + 1 \in 1..Len(DocAt(files, pdfs[doc_i]).pages)
      [] OTHER -> pc \in {"idle", "enter", "enumerate", "progress0", "final"}

C10_RunEndsInOneOutcome ==
    /\ [](pc \in Terminal => OneOutcome)
    /\ [](pc \notin Terminal => CanStep)
    /\ [](Spent <= Budget)
    /\ [][stop' = stop => Spent' > Spent]_vars

\* a run in which a document failed and which was cancelled afterwards has
\* returned the matches found until then
C10_Witness ==
    /\ CancelledWithMatchesSoFar
    /\ result # <<>>
    /\ \E i \in LogIdx : log[i].op \in {"open", "extract"} /\ ~log[i].val

\* the document handles that are open: the opens that succeeded and have not
\* been closed since
OpenHandles ==
    Cardinality({i \in LogIdx : log[i].op \in {"open_count", "open"} /\ log[i].val})
        - Cardinality({i \in LogIdx : log[i].op = "close"})

\* C11: every document handle opened by search_pdfs or count_total_pages is
\* closed on every exit path: a handle is open only while the pages of one
\* document are being processed, never two at once, and none is open in the
\* pre-scan between documents, between documents of the main loop, or when
\* search_pdfs has returned or raised.
C11_HandlesClosedOnEveryPath ==
    /\ OpenHandles = (IF pc = "page" THEN 1 ELSE 0)
    /\ doc_open <=> OpenHandles = 1
    /\ \A i \in LogIdx : log[i].op = "close" =>
          \E h \in 1..(i - 1) :
              /\ log[h].op \in {"open_count", "open"} /\ log[h].val
              /\ log[h].doc = log[i].doc
              /\ \A k \in (h + 1)..(i - 1) : log[k].op \notin {"open_count", "open", "close"}

\* a run has returned whose pre-scan opened the documents, whose first
\* document failed on a page, and whose second document was left by the
\* break of a cancellation
C11_Witness ==
    /\ pc = "returned"
    /\ \E i \in LogIdx : log[i].op = "open_count" /\ log[i].val
    /\ \E i \in LogIdx : log[i].op = "extract" /\ ~log[i].val /\ log[i].doc = 1
    /\ \E i \in LogIdx : TruePollAt(i) /\ log[i].doc = 2 /\ log[i].page = 2
    /\ OpenHandles = 0

\* page p of document d of the list
PageOf(d, p) == DocAt(files, pdfs[d]).pages[p]

\* OCR was invoked for page p of document d
OcrInvoked(d, p) ==
    \E j \in LogIdx : log[j].op = "ocr" /\ log[j].doc = d /\ log[j].page = p

\* C12: for each page whose text was extracted, OCR is invoked if and only if
\* include_ocr is set and the whitespace-normalised length of the extracted
\* text is strictly below 25 (a page of exactly 25 normalised characters is
\* not OCR'd); a Match has used_ocr = true exactly when OCR was invoked for
\* its page and succeeded, so every Match of a page where OCR was not invoked
\* has used_ocr = false.
C12_OcrIffBelowThreshold ==
    /\ \A i \in LogIdx : (log[i].op = "extract" /\ log[i].val) =>
          (OcrInvoked(log[i].doc, log[i].page) <=>
              (args.include_ocr
                 /\ Len(normalize_whitespace(PageOf(log[i].doc, log[i].page).text)) < 25))
    /\ \A i \in 1..Len(matches) :
          matches[i].used_ocr <=>
              /\ OcrInvoked(match_pos[i].doc, match_pos[i].page)
              /\ caps.ocr
              /\ PageOf(match_pos[i].doc, match_pos[i].page).ocr_ok

\* OCR was requested; page 1, of 24 characters once normalised (26 as
\* extracted), was OCR'd and its matches carry used_ocr = true; page 2, of
\* exactly 25 characters, was not OCR'd and its match carries used_ocr = false
C12_Witness ==
    /\ pc = "returned" /\ args.include_ocr /\ caps.ocr
    /\ Len(pdfs) = 1 /\ Len(DocAt(files, pdfs[1]).pages) = 2
    /\ Len(PageOf(1, 1).text) = 26
    /\ Len(normalize_whitespace(PageOf(1, 1).text)) = 24
    /\ Len(normalize_whitespace(PageOf(1, 2).text)) = 25
    /\ OcrInvoked(1, 1) /\ ~OcrInvoked(1, 2)
    /\ \E i, j \in 1..Len(result) :
          /\ result[i].page_number_1based = 1 /\ result[i].used_ocr
          /\ result[j].page_number_1based = 2 /\ ~result[j].used_ocr

\* the matches appended for page p of document d
MatchesOfPage(d, p) ==
    {i \in 1..Len(matches) : match_pos[i].doc = d /\ match_pos[i].page = p}

\* C13: when OCR raises for a page, the page is still scanned, in the text
\* that was extracted and with used_ocr = false; the loop goes on to the
\* next page of the document; and no exception leaves the document or the
\* run because of it.
C13_OcrErrorFallsBack ==
    \A i \in LogIdx : (log[i].op = "ocr" /\ ~log[i].val) =>
        LET d == log[i].doc
            p == log[i].page
            text == PageOf(d, p).text
            spans == PageSpans(pattern, text)
            found == MatchesOfPage(d, p)
        IN  /\ i < Len(log) /\ log[i + 1] = Entry("scan", d, p, text # <<>>)
            /\ Cardinality(found) = Len(spans)
            /\ \A m \in found :
                  /\ ~matches[m].used_ocr
                  /\ \E k \in 1..Len(spans) :
                        matches[m] = NewMatch(pdfs[d], p - 1, text, spans[k], FALSE,
                                              SnippetRadius)
            /\ p < Len(DocAt(files, pdfs[d]).pages) =>
                  \/ pc = "page" /\ doc_i = d /\ page_i = p
                  \/ \E j \in LogIdx : j > i /\ log[j].op = "poll" /\ log[j].doc = d
                                         /\ log[j].page = p + 1
            /\ pc # "raised"

\* OCR failed on page 1 of a document, whose extracted text gave matches, and
\* page 2 of the same document was then scanned; the run has returned
C13_Witness ==
    /\ pc = "returned"
    /\ \E i \in LogIdx :
          /\ log[i].op = "ocr" /\ ~log[i].val /\ log[i].page = 1
          /\ MatchesOfPage(log[i].doc, 1) # {}
          /\ \E j \in LogIdx : j > i /\ log[j].op = "scan" /\ log[j].doc = log[i].doc
                                 /\ log[j].page = 2

\* C14: with the OCR capability absent, a run that asks for OCR raises
\* nothing once its request has passed the validation, and returns exactly
\* the Match list, all with used_ocr = false, that the same request returns
\* with include_ocr = false.
C14_OcrAbsentSameAsOcrOff ==
    /\ (~caps.ocr /\ Started /\ RequestError(caps.fitz, args) = NoError) => pc # "raised"
    /\ (~caps.ocr /\ run = 2 /\ pc = "returned") =>
          /\ result = first_result
          /\ \A i \in 1..Len(result) : ~result[i].used_ocr

\* without the OCR capability, a folder holding a page that OCR would have
\* read was searched with and then without include_ocr, and both runs
\* returned the same matches
C14_Witness ==
    /\ ~caps.ocr /\ run = 2 /\ pc = "returned" /\ ~args.include_ocr
    /\ result # <<>> /\ result = first_result
    /\ \E d \in 1..Len(pdfs) :
          /\ DocAt(files, pdfs[d]).openable
          /\ \E p \in 1..Len(DocAt(files, pdfs[d]).pages) : PageOf(d, p) = PageMiss
          /\ \E j \in LogIdx : log[j].op = "scan" /\ log[j].doc = d /\ PageOf(d, log[j].page) = PageMiss

\* What reaches the caller of search_pdfs: the exception raised, the Progress
\* records handed to on_progress, the Match records returned.  The handler
\* of the OCR call is "pass": it raises nothing and calls nothing, and
\* neither record has a field for the condition.
OcrUnavailableReports ==
    (IF exc = "OcrUnavailable" THEN 1 ELSE 0)
        + Cardinality({i \in 1..Len(events) : "ocr_unavailable" \in DOMAIN events[i]})
        + Cardinality({i \in 1..Len(result) : "ocr_unavailable" \in DOMAIN result[i]})

\* C15: when a run has asked OCR for a page with the OCR capability absent,
\* the condition has been reported to the caller exactly once by the time
\* the run returns, and the page was scanned in its extracted text.
C15_OcrUnavailableReportedOnce ==
    (pc = "returned" /\ ~caps.ocr /\ \E i \in LogIdx : log[i].op = "ocr") =>
        /\ OcrUnavailableReports = 1
        /\ \A i \in LogIdx : log[i].op = "ocr" =>
              /\ ~log[i].val
              /\ i < Len(log) /\ log[i + 1].op = "scan"

\* the progress calls made for a page, after it was counted
PageProgressCalls == Cardinality({i \in LogIdx : log[i].op = "page_progress"})

\* C16: the per-page progress notification is made exactly once for every
\* processed page, whatever the page's matches and whether or not the total
\* is known: when a run that nothing cancelled has returned, the number of
\* page-level progress calls equals the number of pages processed.
C16_ProgressOncePerPage ==
    (pc = "returned" /\ ~at_cancel.seen) => PageProgressCalls = processed_pages

\* count_total_pages raised on a document
PrescanFailed == \E i \in LogIdx : log[i].op = "open_count" /\ ~log[i].val

\* C17: when the page-count pre-scan fails on a document, search_pdfs does
\* not abort: every Progress event of the run reports total = 0, nothing is
\* raised, and a run that nothing cancelled has gone through every document
\* of the list and returns the matches of every page that could be read.
C17_PrescanFailureLeavesTotalUnknown ==
    PrescanFailed =>
        /\ total_pages = 0
        /\ \A i \in 1..Len(events) : events[i].total = 0
        /\ pc # "raised" /\ exc = NoError
        /\ (pc = "returned" /\ ~at_cancel.seen) =>
              /\ \A d \in 1..Len(pdfs) :
                    \E i \in LogIdx : log[i].op = "open" /\ log[i].doc = d
              /\ result = AllMatchesFrom(1)

\* the pre-scan counted the pages of the first document and failed on the
\* second; the run has returned the matches of the first
C17_Witness ==
    /\ pc = "returned" /\ ~at_cancel.seen
    /\ \E i \in LogIdx : log[i].op = "open_count" /\ log[i].val /\ log[i].doc = 1
    /\ \E i \in LogIdx : log[i].op = "open_count" /\ ~log[i].val /\ log[i].doc = 2
    /\ Len(DocAt(files, pdfs[1]).pages) >= 2
    /\ result # <<>>
    /\ Len(events) >= 4

\* C18: when the PDF library is missing, search_pdfs fails at once with the
\* error that names it (the only RuntimeError search_pdfs raises), whatever
\* the request, valid or not: before any validation error, enumeration,
\* progress event or partial result.
C18_MissingLibraryFailsFirst ==
    /\ (Started /\ ~caps.fitz) =>
          /\ pc = "raised" /\ exc = "RuntimeError"
          /\ log = <<>> /\ events = <<>>
          /\ pdfs = <<>> /\ matches = <<>> /\ result = <<>>
    /\ exc = "RuntimeError" => ~caps.fitz

\* without the PDF library, a request with an invalid folder over a folder
\* that holds PDFs was answered by the library error
C18_Witness ==
    /\ ~caps.fitz /\ pc = "raised" /\ exc = "RuntimeError"
    /\ ~args.folder_ok
    /\ \E f \in files : f.is_pdf

\* the query q stands at offset p of the text, character for character (up
\* to case when ic is set)
LiteralAt(q, text, p, ic) ==
    /\ p + Len(q) <= Len(text)
    /\ \A k \in 1..Len(q) :
          IF ic THEN Lower(text[p + k]) = Lower(q[k]) ELSE text[p + k] = q[k]

\* C19: in literal mode, for every query, those made of "." and "*"
\* included, the compiled pattern matches at an offset of a text exactly
\* when the query stands there as a literal substring (up to case when
\* ignore_case is set), the match being that substring; finditer returns
\* such spans only, and every place where the query stands is in one of them.
C19_LiteralModeMatchesLiterally ==
    (unit_in.kind = "literal" /\ unit_out.done) =>
        LET q == unit_in.query
            text == unit_in.text
            ic == unit_in.ignore_case
            pat == compile_pattern(q, FALSE, ic)
            found == unit_out.val
        IN  /\ pat.ok
            /\ \A p \in 0..Len(text) :
                  LET e == MatchAt(pat.items, 1, text, p, ic, -1)
                  IN  IF LiteralAt(q, text, p, ic) THEN e = p + Len(q) ELSE e = -1
            /\ \A i \in 1..Len(found) :
                  /\ LiteralAt(q, text, found[i].start, ic)
                  /\ found[i].end = found[i].start + Len(q)
            /\ \A p \in 0..Len(text) : LiteralAt(q, text, p, ic) =>
                  \E i \in 1..Len(found) : found[i].start <= p /\ p < found[i].end

\* the query ".*" was searched in "a.*" and found once, at offset 1, and
\* nowhere else
C19_Witness ==
    /\ unit_in.kind = "literal" /\ unit_out.done
    /\ unit_in.query = <<".", "*">>
    /\ unit_in.text = <<"a", ".", "*">>
    /\ unit_out.val = <<[start |-> 1, end |-> 3]>>

\* texts a and b are equally long and hold the same characters at the
\* indices lo .. hi - 1 (counted from 0)
AgreeOn(a, b, lo, hi) ==
    /\ Len(a) = Len(b)
    /\ \A k \in (lo + 1)..hi : a[k] = b[k]

\* C20: for every text, span 0 <= start <= end <= len(text) and radius
\* r >= 0, make_snippet reads the text only at the indices of
\* [max(0, start - r), min(len(text), end + r)), a window inside the text:
\* the snippet is the normalised window, and is the same for every text
\* that agrees with this one on the window.  The snippet has at most
\* 2r + (end - start) characters, no two whitespace characters in a row and
\* no whitespace at either end.
C20_SnippetWithinWindow ==
    (unit_in.kind = "snippet" /\ unit_out.done) =>
        LET text == unit_in.text
            r == unit_in.radius
            lo == Max(0, unit_in.start - r)
            hi == Min(Len(text), unit_in.end + r)
            snip == unit_out.val
        IN  /\ 0 <= lo /\ lo <= hi /\ hi <= Len(text)
            /\ snip = normalize_whitespace(SubSeq(text, lo + 1, hi))
            /\ \A other \in SeqsUpTo({"a", " ", "\n"}, MaxTextLen) :
                  AgreeOn(text, other, lo, hi) =>
                      make_snippet(other, unit_in.start, unit_in.end, r) = snip
            /\ Len(snip) <= 2 * r + (unit_in.end - unit_in.start)
            /\ \A k \in 1..(Len(snip) - 1) : ~(IsSpace(snip[k]) /\ IsSpace(snip[k + 1]))
            /\ snip # <<>> => (~IsSpace(snip[1]) /\ ~IsSpace(snip[Len(snip)]))
            /\ \A k \in 1..Len(snip) : snip[k] # "\n"

\* the match is the last character of the text blank, newline, "a" and the
\* radius is 1: the window starts inside the text at the newline and is cut
\* at the end of the text; the snippet is "a"
C20_Witness ==
    /\ unit_in.kind = "snippet" /\ unit_out.done
    /\ unit_in.text = <<" ", "\n", "a">>
    /\ unit_in.start = 2 /\ unit_in.end = 3 /\ unit_in.radius = 1
    /\ unit_out.val = <<"a">>

\* the offsets of a text at which the query stands
Occurrences(q, text, ic) == {p \in 0..Len(text) : LiteralAt(q, text, p, ic)}

\* C21: no match is dropped as a duplicate: the scan of a page for a literal
\* query appends one Match for every offset at which the query stands in the
\* page's text, overlapping occurrences included ("aa" in "aaa": two).
C21_OneMatchPerOccurrence ==
    (unit_in.kind = "scan" /\ unit_out.done) =>
        Len(unit_out.val)
            = Cardinality(Occurrences(unit_in.query, unit_in.text, unit_in.ignore_case))

\* C22: every Match returned carries the index of the page it was found on
\* plus one: a number in 1..page_count of its document, naming a readable
\* page of that document in whose scanned text (extracted, or OCR output when
\* used_ocr is set) the pattern matches at the offset the Match was found at.
C22_PageNumberIsIndexPlusOne ==
    pc = "returned" =>
        /\ result = matches
        /\ \A i \in 1..Len(result) :
              LET m == result[i]
                  at == match_pos[i]
                  doc == DocAt(files, m.pdf_path)
                  n == m.page_number_1based
              IN  /\ m.pdf_path = pdfs[at.doc]
                  /\ n = at.page
                  /\ n \in 1..Len(doc.pages)
                  /\ doc.pages[n].readable
                  /\ LET rt == ResolveText(doc.pages[n], args.include_ocr, caps.ocr)
                     IN  /\ m.used_ocr = rt.used_ocr
                         /\ MatchAt(pattern.items, 1, rt.text, at.start,
                                    pattern.icase, -1) # -1

\* a run has returned a Match found in the extracted text of page 1 and a
\* Match found in the OCR text of page 2 of the second document of the list
C22_Witness ==
    /\ pc = "returned" /\ Len(pdfs) = 2
    /\ \E i, j \in 1..Len(result) :
          /\ result[i].pdf_path = pdfs[2] /\ result[j].pdf_path = pdfs[2]
          /\ result[i].page_number_1based = 1 /\ ~result[i].used_ocr
          /\ result[j].page_number_1based = 2 /\ result[j].used_ocr

\* the place of a message type in the protocol
Rank(msg) ==
    CASE msg.type = "progress" -> 0
      [] msg.type = "match" -> 1
      [] msg.type = "error" -> 2
      [] msg.type = "done" -> 3

TypeCount(q, t) == Cardinality({i \in 1..Len(q) : q[i].type = t})

\* the match messages of the queue, in order
RECURSIVE MatchData(_)
MatchData(q) ==
    IF q = <<>> THEN <<>>
    ELSE (IF Head(q).type = "match" THEN <<Head(q).data>> ELSE <<>>) \o MatchData(Tail(q))

\* C23: the messages of a run of search_worker follow the protocol: progress
\* messages, then the match messages, one per Match search_pdfs returned and
\* in its order, then "done", once and last; when the search raises, one
\* "error" stands right before "done" and no match is sent; a cancelled run
\* sends every match found before the cancellation.  While the worker runs
\* only progress messages are on the queue.
C23_WorkerProtocol ==
    LET q == out_queue
    IN  /\ \A i, j \in 1..Len(q) : i < j => Rank(q[i]) <= Rank(q[j])
        /\ (worker_alive \/ pc = "idle") => \A i \in 1..Len(q) : q[i].type = "progress"
        /\ (~worker_alive /\ pc \in Terminal) =>
              /\ TypeCount(q, "done") = 1 /\ q[Len(q)] = MpDone
              /\ pc = "returned" =>
                    /\ TypeCount(q, "error") = 0
                    /\ MatchData(q) = [i \in 1..Len(result) |-> _match_to_payload(result[i])]
                    /\ at_cancel.seen =>
                          IsPrefix([i \in 1..Len(at_cancel.matches) |->
                                       _match_to_payload(at_cancel.matches[i])],
                                   MatchData(q))
              /\ pc = "raised" =>
                    /\ TypeCount(q, "error") = 1 /\ q[Len(q) - 1] = MpError(exc)
                    /\ TypeCount(q, "match") = 0

\* a worker has finished a run that was cancelled after matches were found:
\* the queue holds progress messages, the matches and "done"
C23_Witness ==
    /\ ~worker_alive /\ pc = "returned"
    /\ at_cancel.seen /\ at_cancel.matches # <<>>
    /\ TypeCount(out_queue, "progress") >= 2
    /\ TypeCount(out_queue, "match") = Len(at_cancel.matches)
    /\ out_queue[Len(out_queue)] = MpDone

\* C24: in both windows every started search returns the window to the
\* non-busy state: once the worker thread of a started search has ended,
\* whatever the path it ended on, it has put exactly one "done" message and
\* that message is the last one of the run; and once the UI thread has taken
\* everything the ended worker put, the window is no longer busy.
DoneCount(q) == Cardinality({i \in 1..Len(q) : q[i].kind = "done"})

C24_EndedWorkerLeftOneDone ==
    (pc # "idle" /\ ~worker_alive) =>
        /\ DoneCount(Sent) = 1
        /\ Sent[Len(Sent)].kind = "done"
        /\ _ui_queue = <<>> => ~busy

\* C25: the launcher retries at most once: main makes at most two attempts to
\* import and run the window and at most one auto-install, the second
\* attempt only after a ModuleNotFoundError followed by a successful install;
\* a second ModuleNotFoundError, a failed install or any other exception ends
\* main with exit code 1; and main always ends: while it has not, the next
\* attempt or install can be made.
C25_LauncherRetriesAtMostOnce ==
    unit_in.kind = "main" =>
        /\ unit_out.imports <= 2
        /\ unit_out.installs <= 1
        /\ unit_out.imports = 2 =>
              (unit_in.outcome[1] = "ModuleNotFoundError" /\ unit_out.installs = 1)
        /\ unit_out.at = "import" => unit_out.imports + unit_out.installs <= 2
        /\ unit_out.done =>
              /\ unit_out.why \in {"missing again", "install failed", "exception"}
                    <=> unit_out.val = 1
              /\ unit_out.why = "returned" <=> unit_out.val = 0
              /\ unit_out.why = "missing again" =>
                    (unit_out.imports = 2 /\ unit_in.outcome[2] = "ModuleNotFoundError")

\* main has ended after a second ModuleNotFoundError
C25_Witness ==
    /\ unit_in.kind = "main"
    /\ unit_out.done
    /\ unit_out.why = "missing again"
    /\ unit_out.imports = 2
    /\ unit_out.installs = 1
    /\ unit_out.val = 1

\* C26: every document open of a run, the opens of the page-count pre-scan
\* included, comes after a cancellation poll that returned false; and a run
\* in which no poll ever returned false (the flag was up from the start)
\* opens no document and returns the empty list.
FalsePollBefore(j) == \E i \in 1..(j - 1) : log[i].op = "poll" /\ ~log[i].val

C26_EveryOpenFollowsAFalsePoll ==
    /\ \A j \in LogIdx : log[j].op \in {"open_count", "open"} => FalsePollBefore(j)
    /\ (pc = "returned" /\ \A i \in LogIdx : log[i].op = "poll" => log[i].val) =>
          /\ \A j \in LogIdx : log[j].op \notin {"open_count", "open"}
          /\ result = <<>>

\* C27: across the Progress events of one run, processed and matches_found
\* never decrease, total is the same in every event, the first event and,
\* once the run has returned, the last event carry no current file, and
\* processed never exceeds a known total (total > 0); and the match list is
\* only ever appended to.
C27_ProgressIsMonotonic ==
    /\ [](/\ \A i \in 1..Len(events) : \A j \in i..Len(events) :
                /\ events[i].processed <= events[j].processed
                /\ events[i].matches_found <= events[j].matches_found
                /\ events[i].total = events[j].total
          /\ \A i \in 1..Len(events) :
                events[i].total > 0 => events[i].processed <= events[i].total
          /\ events # <<>> => events[1].current_file = NoFile
          /\ pc = "returned" => events[Len(events)].current_file = NoFile)
    /\ [][IsPrefix(matches, matches')]_vars

\* a run over a long document has returned: its events show the pages
\* counted up to the total, the matches growing, and the document both before
\* its first page and after its fifth
C27_Witness ==
    /\ pc = "returned"
    /\ Len(events) >= 4
    /\ events[1].processed = 0
    /\ events[Len(events)].processed = MaxLongPages
    /\ events[Len(events)].total = MaxLongPages
    /\ events[Len(events)].matches_found > events[1].matches_found
    /\ \E i, j \in 1..Len(events) :
          /\ events[i].current_file # NoFile
          /\ events[i].processed = 0
          /\ events[j].current_file # NoFile
          /\ events[j].processed = ProgressEvery

\* C28: when OCR is invoked on a page and returns without error, the page is
\* scanned in the OCR output only and the extracted text is discarded: the
\* matches of the page are exactly the occurrences found in the OCR output,
\* with snippets cut from it and used_ocr = true; when the OCR output is
\* empty the page yields no match, even if the extracted text held the
\* query; and the page still counts as processed: a run that was not
\* cancelled has counted every page of the documents it listed.
C28_OcrOutputReplacesExtractedText ==
    /\ \A i \in LogIdx :
          (/\ log[i].op = "ocr"
           /\ caps.ocr
           /\ PageOf(log[i].doc, log[i].page).ocr_ok) =>
          LET d == log[i].doc
              p == log[i].page
              out == PageOf(d, p).ocr
              spans == PageSpans(pattern, out)
              found == MatchesOfPage(d, p)
          IN  /\ i < Len(log) /\ log[i + 1] = Entry("scan", d, p, out # <<>>)
              /\ Cardinality(found) = Len(spans)
              /\ \A m \in found :
                    \E k \in 1..Len(spans) :
                        matches[m] = NewMatch(pdfs[d], p - 1, out, spans[k], TRUE,
                                              SnippetRadius)
              /\ out = <<>> => found = {}
    /\ (pc = "returned" /\ ~at_cancel.seen) =>
          processed_pages = PagesIn({f \in files : \E d \in 1..Len(pdfs) : f.path = pdfs[d]})

\* a completed run with OCR over two pages that both hold the query in their
\* extracted text: page 1, whose OCR output is empty, gave no match and was
\* counted; page 2 gave the matches of its OCR output
C28_Witness ==
    /\ pc = "returned" /\ ~at_cancel.seen /\ args.include_ocr /\ caps.ocr
    /\ Len(pdfs) = 1 /\ processed_pages = 2
    /\ PageOf(1, 1) = PageBlankScan /\ PageOf(1, 2) = PageOverlaid
    /\ finditer(pattern, PageBlankScan.text) # <<>>
    /\ \E i \in LogIdx : log[i].op = "ocr" /\ log[i].page = 1
    /\ PageBlankScan.ocr_ok
    /\ MatchesOfPage(1, 1) = {}
    /\ Cardinality(MatchesOfPage(1, 2)) = 2
    /\ \A m \in MatchesOfPage(1, 2) : matches[m].snippet = <<"b", " ", "a", " ", "A">>
====
